---- MODULE Spec2Model ----
(***************************************************************************)
(* Model of lib/ansible/modules/univention_apps.py: one Ansible module run *)
(* (main) that probes the host with "univention-app list" and              *)
(* "univention-app info", classifies the requested app and runs at most    *)
(* one of install / remove / upgrade with a temporary password file.       *)
(*                                                                         *)
(* Modelling conventions                                                   *)
(*  - an app identifier is a sequence of one-character strings, so that    *)
(*    Python's "x in y" on strings is a real substring test;               *)
(*  - builtins are modelled with the semantics of the interpreter the      *)
(*    module was written for (#!/usr/bin/python, platform.dist): filter()  *)
(*    returns a list, which is truthy iff it is non-empty;                 *)
(*  - AnsibleModule.exit_json / fail_json emit the result and then raise   *)
(*    SystemExit; AnsibleModule.run_command returns (rc, stdout, stderr)   *)
(*    and calls fail_json itself when the command cannot be started;       *)
(*  - the external tool is a black box: any exit code, and on exit code 0  *)
(*    the action has its effect on the host's installed/upgradable sets.   *)
(*  - the argument_spec is read as written for the five parameters (the   *)
(*    comma missing after required=True on line 134 is taken as present). *)
(***************************************************************************)
EXTENDS Integers, Sequences, FiniteSets, TLC

VARIABLES
    host,                  \* the machine: catalog, installed, upgradable, dist
    params,                \* module.params of the invocation
    run,                   \* index of the current run of main()
    pc,                    \* position of the current run in main()
    available_apps_list,   \* global: stdout of "list" (a string)
    installed_apps_list,   \* global: app_infos['installed']
    upgradable_apps_list,  \* global: app_infos['upgradable']
    probe,                 \* how the calls of the external tool ended
    act,                   \* the action branch main() is in
    auth_file,             \* local auth_file: path of the staged file
    tmpfiles,              \* temporary files that exist on disk
    rc,                    \* exit code returned by the action call
    pending,               \* exception propagating out of the try block
    result,                \* what this run reported to the caller
    prev_result,           \* what the preceding run reported
    prev_info,             \* what the preceding run's info probe returned
    prev_obs,              \* tool behaviour and events of a run to compare with
    host0,                 \* the host as it was before the first run
    trace,                 \* events of this run, in order
    cmds                   \* command lines passed to run_command in this run

vars == << host, params, run, pc, available_apps_list, installed_apps_list,
           upgradable_apps_list, probe, act, auth_file, tmpfiles, rc, pending,
           result, prev_result, prev_info, prev_obs, host0, trace, cmds >>

-----------------------------------------------------------------------------
(* Bounds *)

\* largest number of identifiers in each of the host's three sets
MaxApps == 2
\* number of consecutive runs of main() on the same host
MaxRuns == 2

-----------------------------------------------------------------------------
(* Values *)

NL == "\n"

\* identifiers: "a" is a proper substring (and prefix) of "ab"; "c" is unrelated
AppIds == { <<"a">>, <<"a", "b">>, <<"c">> }

TargetStates == { "present", "absent" }

Usernames == { "Administrator" }

Passwords == { "univention" }

\* another password, for a run that differs from the first in it alone
OtherPasswords == { "s3cret" }

Dists == { "Univention", "debian" }

None == "None"

NoFile == ""

\* names tempfile can give to a new file
TmpPaths == << "/tmp/tmp1", "/tmp/tmp2", "/tmp/tmp3", "/tmp/tmp4",
              "/tmp/tmp5", "/tmp/tmp6" >>

NoResult == [ kind |-> "none", changed |-> FALSE, msg |-> "" ]

NoInfo == [ taken |-> FALSE, installed |-> {}, upgradable |-> {} ]

NoProbe == [ list |-> "none", info |-> "none", json |-> "none",
             action |-> "none" ]

NoObs == [ probe |-> NoProbe, cmds |-> << >>, trace |-> << >> ]

Bounded(S) == { T \in SUBSET S : Cardinality(T) <= MaxApps }

-----------------------------------------------------------------------------
(* Python builtins used by the module *)

\* str.lower() on the distribution names of the model
Lower(s) == IF s = "Univention" THEN "univention" ELSE s

\* "s in t" for two strings
StrIn(s, t) ==
    \E i \in 1 .. (Len(t) - Len(s) + 1) : SubSeq(t, i, i + Len(s) - 1) = s

\* filter(lambda x: name in x, lst): the elements that contain name
Filter(name, lst) == { x \in lst : StrIn(name, x) }

\* truth value of a list
Truthy(lst) == lst # {}

-----------------------------------------------------------------------------
(* The external tool *)

RECURSIVE IdsOnly(_)
\* stdout of "univention-app list --ids-only": one identifier per line
IdsOnly(S) ==
    IF S = {} THEN << >>
    ELSE LET x == CHOOSE y \in S : TRUE
         IN  x \o << NL >> \o IdsOnly(S \ { x })

\* effect on the host of an action that exits 0
ToolEffect(h, action, name) ==
    CASE action = "install" ->
            [ h EXCEPT !.installed = @ \cup { name } ]
      [] action = "remove" ->
            [ h EXCEPT !.installed = @ \ { name }, !.upgradable = @ \ { name } ]
      [] action = "upgrade" ->
            [ h EXCEPT !.upgradable = @ \ { name } ]

-----------------------------------------------------------------------------
(* Functions of the module *)


\* check_ucs with the comparison inverted
check_ucs_inverted == Lower(host.dist) # "univention"

check_ucs == Lower(host.dist) = "univention"

\* ansible_exec with the password itself put on the action's command line
ansible_exec_password_argument(action, appname, keyfile, username) ==
    [ action |-> action, username |-> username,
      pwdfile |-> IF keyfile = None THEN keyfile ELSE params.auth_password,
      appname |-> appname ]

\* the command line ansible_exec builds for an action
ansible_exec(action, appname, keyfile, username) ==
    [ action |-> action, username |-> username, pwdfile |-> keyfile,
      appname |-> appname ]

check_app_present(_appname) ==
    StrIn(_appname, available_apps_list)
        /\ Truthy(Filter(_appname, installed_apps_list))

check_app_absent(_appname) ==
    StrIn(_appname, available_apps_list)
        /\ ~ Truthy(Filter(_appname, installed_apps_list))

check_app_upgradeable(_appname) ==
    StrIn(_appname, available_apps_list)
        /\ Truthy(Filter(_appname, upgradable_apps_list))

install_app(_appname, _authfile) ==
    ansible_exec("install", _appname, _authfile, None)

remove_app(_appname, _authfile) ==
    ansible_exec("remove", _appname, _authfile, None)

upgrade_app(_appname, _authfile) ==
    ansible_exec("upgrade", _appname, _authfile, None)

\* module.exit_json(changed=..., msg=...)
exit_json(changed, msg) == [ kind |-> "exit", changed |-> changed, msg |-> msg ]

\* module.fail_json(msg=...)
fail_json(msg) == [ kind |-> "fail", changed |-> FALSE, msg |-> msg ]


\* exit_json / fail_json that return to the caller instead of raising
RaisedByResult_returns == "none"

\* what exit_json and fail_json leave propagating after emitting the result
RaisedByResult == "SystemExit"

\* an exception that leaves main() uncaught: a traceback, no result object
Crash(what) == [ kind |-> "crash", changed |-> FALSE, msg |-> what ]

\* tempfile.NamedTemporaryFile: a name that no existing file has
NamedTemporaryFile(files) ==
    TmpPaths[ CHOOSE p \in 1 .. (Cardinality(files) + 1) :
                  \A f \in files : f.path # TmpPaths[p] ]

\* generate_tmp_auth_file, lines 104-109: the file exists afterwards (delete=False)
generate_tmp_auth_file(files, _data) ==
    files \cup { [ path |-> NamedTemporaryFile(files), data |-> _data ] }


\* os.remove that leaves the file in place
os_remove_skipped(files, path) == files

\* os.remove(auth_file)
os_remove(files, path) == { f \in files : f.path # path }


\* the upgrade test with the upgrade flag ignored when the app is upgradable
UpgradeCondition_flag_negated(target, app_upgradeable, app_status_upgrade) ==
    target = "present" /\ app_upgradeable /\ ~ app_status_upgrade

\* line 185: app_status_target == 'present' and app_upgradeable and app_status_upgrade
UpgradeCondition(target, app_upgradeable, app_status_upgrade) ==
    target = "present" /\ app_upgradeable /\ app_status_upgrade


\* the chain with the last test negated
Chain_not_installed_negated(target, app_present, app_absent) ==
    IF target = "present" /\ app_present THEN "already_installed"
    ELSE IF target = "present" /\ ~ app_present THEN "install"
    ELSE IF target = "absent" /\ app_present THEN "remove"
    ELSE IF target = "absent" /\ ~ app_absent THEN "not_installed"
    ELSE "unknown_error"

\* the chain with the two 'absent' branches testing the wrong flag
Chain_absent_swapped(target, app_present, app_absent) ==
    IF target = "present" /\ app_present THEN "already_installed"
    ELSE IF target = "present" /\ ~ app_present THEN "install"
    ELSE IF target = "absent" /\ app_absent THEN "remove"
    ELSE IF target = "absent" /\ app_present THEN "not_installed"
    ELSE "unknown_error"

\* lines 197-228: the branch the if/elif chain takes
Chain(target, app_present, app_absent) ==
    IF target = "present" /\ app_present THEN "already_installed"
    ELSE IF target = "present" /\ ~ app_present THEN "install"
    ELSE IF target = "absent" /\ app_present THEN "remove"
    ELSE IF target = "absent" /\ app_absent THEN "not_installed"
    ELSE "unknown_error"

\* lines 189, 204, 216: the command line of the action branch
ActionCommand(action, name, file) ==
    CASE action = "upgrade" -> upgrade_app(name, file)
      [] action = "install" -> install_app(name, file)
      [] action = "remove" -> remove_app(name, file)

\* the result of the action with the exit code not looked at
ActionResult_ignores_code(action, code) ==
    exit_json(TRUE, CASE action = "upgrade" -> "upgraded"
                      [] action = "install" -> "installed"
                      [] action = "remove" -> "removed")

\* lines 190-193, 205-208, 217-220: exit_json on exit code 0, else fail_json
ActionResult(action, code) ==
    IF code = 0
    THEN exit_json(TRUE, CASE action = "upgrade" -> "upgraded"
                           [] action = "install" -> "installed"
                           [] action = "remove" -> "removed")
    ELSE fail_json(CASE action = "upgrade" -> "err_upgrading"
                     [] action = "install" -> "err_installing"
                     [] action = "remove" -> "err_uninstalling")

-----------------------------------------------------------------------------
(* Initial state: a host and the parameters of the invocation *)

Init ==
    /\ host \in [ available : Bounded(AppIds), installed : Bounded(AppIds),
                  upgradable : Bounded(AppIds), dist : Dists ]
    /\ params \in [ name : AppIds, state : TargetStates, upgrade : BOOLEAN,
                    auth_username : Usernames, auth_password : Passwords ]
    /\ run = 1
    /\ pc = "check_ucs"
    /\ available_apps_list = << >>
    /\ installed_apps_list = {}
    /\ upgradable_apps_list = {}
    /\ probe = NoProbe
    /\ act = "none"
    /\ auth_file = NoFile
    /\ tmpfiles = {}
    /\ rc = 0
    /\ pending = "none"
    /\ result = NoResult
    /\ prev_result = NoResult
    /\ prev_info = NoInfo
    /\ prev_obs = NoObs
    /\ host0 = host
    /\ trace = << >>
    /\ cmds = << >>

-----------------------------------------------------------------------------
(* main(), lines 159-165: the platform guard *)

PlatformGuard ==
    /\ pc = "check_ucs"
    /\ IF ~ check_ucs
       THEN /\ result' = exit_json(FALSE, "non_ucs")
            /\ trace' = Append(trace, "exit_json")
            /\ pc' = "done"
       ELSE /\ pc' = "get_app_list"
            /\ UNCHANGED << result, trace >>
    /\ UNCHANGED << host, params, run, available_apps_list, installed_apps_list,
                    upgradable_apps_list, probe, act, auth_file, tmpfiles, rc,
                    pending, prev_result,
                    prev_info, prev_obs, host0, cmds >>

-----------------------------------------------------------------------------
(* get_apps_status(), lines 72-90: the two probe calls *)

\* get_app_list, lines 74-76 and 89: stdout is kept whatever the exit code
get_app_list ==
    /\ pc = "get_app_list"
    /\ cmds' = Append(cmds, ansible_exec("list", None, None, None))
    /\ \E outcome \in { "ok", "rcfail", "noinvoke" } :
          /\ probe' = [ probe EXCEPT !.list = outcome ]
          /\ IF outcome = "noinvoke"
             THEN /\ result' = fail_json("run_command")
                  /\ trace' = trace \o << "list", "fail_json" >>
                  /\ pc' = "done"
                  /\ UNCHANGED available_apps_list
             ELSE /\ available_apps_list' = IdsOnly(host.available)
                  /\ trace' = Append(trace, "list")
                  /\ pc' = "get_app_info"
                  /\ UNCHANGED result
    /\ UNCHANGED << host, params, run, installed_apps_list, upgradable_apps_list,
                    act, auth_file, tmpfiles, rc, pending, prev_result,
                    prev_info, prev_obs, host0 >>

\* get_app_info, lines 77-84 and 90: json.loads of stdout, then the two keys
get_app_info ==
    /\ pc = "get_app_info"
    /\ cmds' = Append(cmds, ansible_exec("info", None, None, None))
    /\ \E outcome \in { "ok", "rcfail", "noinvoke" },
          json \in { "json", "malformed", "nofields" } :
          IF outcome = "noinvoke"
          THEN /\ probe' = [ probe EXCEPT !.info = outcome ]
               /\ result' = fail_json("run_command")
               /\ trace' = trace \o << "info", "fail_json" >>
               /\ pc' = "done"
               /\ UNCHANGED << installed_apps_list, upgradable_apps_list >>
          ELSE /\ probe' = [ probe EXCEPT !.info = outcome, !.json = json ]
               /\ CASE json = "malformed" ->
                         /\ result' = fail_json("parse_json")
                         /\ trace' = trace \o << "info", "fail_json" >>
                         /\ pc' = "done"
                         /\ UNCHANGED << installed_apps_list,
                                         upgradable_apps_list >>
                    [] json = "nofields" ->
                         /\ result' = Crash("KeyError")
                         /\ trace' = Append(trace, "info")
                         /\ pc' = "done"
                         /\ UNCHANGED << installed_apps_list,
                                         upgradable_apps_list >>
                    [] json = "json" ->
                         /\ installed_apps_list' = host.installed
                         /\ upgradable_apps_list' = host.upgradable
                         /\ trace' = Append(trace, "info")
                         /\ pc' = "classify"
                         /\ UNCHANGED result
    /\ UNCHANGED << host, params, run, available_apps_list, act, auth_file,
                    tmpfiles, rc, pending, prev_result,
                    prev_info, prev_obs, host0 >>

-----------------------------------------------------------------------------
(* main(), lines 169-182: classification and the basic logic checks *)

LogicChecks ==
    /\ pc = "classify"
    /\ LET app_present == check_app_present(params.name)
           app_absent == check_app_absent(params.name)
       IN  IF ~ app_absent /\ ~ app_present
           THEN /\ result' = fail_json("not_exist")
                /\ trace' = Append(trace, "fail_json")
                /\ pc' = "done"
           ELSE IF app_absent /\ app_present
           THEN /\ result' = fail_json("status_error")
                /\ trace' = Append(trace, "fail_json")
                /\ pc' = "done"
           ELSE /\ pc' = "L185"
                /\ UNCHANGED << result, trace >>
    /\ UNCHANGED << host, params, run, available_apps_list, installed_apps_list,
                    upgradable_apps_list, probe, act, auth_file, tmpfiles, rc,
                    pending, prev_result,
                    prev_info, prev_obs, host0, cmds >>

-----------------------------------------------------------------------------
(* main(), lines 184-228: upgrade, install or remove the app, or do nothing *)

\* lines 185-187: the upgrade test, then the staging of the password
UpgradeTest ==
    /\ pc = "L185"
    /\ IF UpgradeCondition(params.state, check_app_upgradeable(params.name),
                           params.upgrade)
       THEN /\ act' = "upgrade"
            /\ auth_file' = NamedTemporaryFile(tmpfiles)
            /\ tmpfiles' = generate_tmp_auth_file(tmpfiles, params.auth_password)
            /\ trace' = Append(trace, "create")
            /\ pc' = "try"
       ELSE /\ pc' = "L197"
            /\ UNCHANGED << act, auth_file, tmpfiles, trace >>
    /\ UNCHANGED << host, params, run, available_apps_list, installed_apps_list,
                    upgradable_apps_list, probe, rc, pending, result,
                    prev_result,
                    prev_info, prev_obs, host0, cmds >>

\* lines 197-228: the if/elif chain
Dispatch ==
    /\ pc = "L197"
    /\ LET branch == Chain(params.state, check_app_present(params.name),
                           check_app_absent(params.name))
       IN  IF branch \in { "install", "remove" }
           THEN /\ act' = branch
                /\ auth_file' = NamedTemporaryFile(tmpfiles)
                /\ tmpfiles' = generate_tmp_auth_file(tmpfiles,
                                                      params.auth_password)
                /\ trace' = Append(trace, "create")
                /\ pc' = "try"
                /\ UNCHANGED result
           ELSE /\ result' = IF branch = "unknown_error"
                             THEN fail_json(branch)
                             ELSE exit_json(FALSE, branch)
                /\ trace' = Append(trace, IF branch = "unknown_error"
                                          THEN "fail_json" ELSE "exit_json")
                /\ pc' = "done"
                /\ UNCHANGED << act, auth_file, tmpfiles >>
    /\ UNCHANGED << host, params, run, available_apps_list, installed_apps_list,
                    upgradable_apps_list, probe, rc, pending, prev_result,
                    prev_info, prev_obs, host0, cmds >>

\* lines 189, 204, 216: the call of the external tool inside the try block
ActionCall ==
    /\ pc = "try"
    /\ cmds' = Append(cmds, ActionCommand(act, params.name, auth_file))
    /\ \E outcome \in { "zero", "nonzero", "noinvoke", "raise" } :
        /\ probe' = [ probe EXCEPT !.action = outcome ]
        /\ CASE outcome = "zero" ->
                  /\ rc' = 0
                  /\ host' = ToolEffect(host, act, params.name)
                  /\ trace' = Append(trace, act)
                  /\ pc' = "report"
                  /\ UNCHANGED << result, pending >>
            [] outcome = "nonzero" ->
                  /\ rc' = 1
                  /\ trace' = Append(trace, act)
                  /\ pc' = "report"
                  /\ UNCHANGED << host, result, pending >>
            [] outcome = "noinvoke" ->
                  /\ result' = fail_json("run_command")
                  /\ pending' = RaisedByResult
                  /\ trace' = trace \o << act, "fail_json" >>
                  /\ pc' = "finally"
                  /\ UNCHANGED << host, rc >>
            [] outcome = "raise" ->
                  /\ pending' = "Exception"
                  /\ trace' = Append(trace, act)
                  /\ pc' = "finally"
                  /\ UNCHANGED << host, rc, result >>
    /\ UNCHANGED << params, run, available_apps_list, installed_apps_list,
                    upgradable_apps_list, act, auth_file, tmpfiles,
                    prev_result,
                    prev_info, prev_obs, host0 >>

\* lines 190-193, 205-208, 217-220: the result of the action
Report ==
    /\ pc = "report"
    /\ result' = ActionResult(act, rc)
    /\ trace' = Append(trace, IF rc = 0 THEN "exit_json" ELSE "fail_json")
    /\ pending' = RaisedByResult
    /\ pc' = "finally"
    /\ UNCHANGED << host, params, run, available_apps_list, installed_apps_list,
                    upgradable_apps_list, probe, act, auth_file, tmpfiles, rc,
                    prev_result,
                    prev_info, prev_obs, host0, cmds >>

\* lines 194-195, 209-210, 221-222: the finally clause, then what propagates
Finally ==
    /\ pc = "finally"
    /\ tmpfiles' = os_remove(tmpfiles, auth_file)
    /\ trace' = Append(trace, "os_remove")
    /\ result' = IF pending = "Exception" THEN Crash("Exception") ELSE result
    /\ pc' = IF pending = "none" /\ act = "upgrade" THEN "L197" ELSE "done"
    /\ pending' = "none"
    /\ UNCHANGED << host, params, run, available_apps_list, installed_apps_list,
                    upgradable_apps_list, probe, act, auth_file, rc,
                    prev_result,
                    prev_info, prev_obs, host0, cmds >>

-----------------------------------------------------------------------------
(* The next invocation of the module on the same host, same parameters *)

NextRun ==
    /\ pc = "done"
    /\ run < MaxRuns
    /\ run' = run + 1
    /\ prev_result' = result
    /\ prev_info' = [ taken |-> probe.json = "json",
                      installed |-> installed_apps_list,
                      upgradable |-> upgradable_apps_list ]
    /\ pc' = "check_ucs"
    /\ available_apps_list' = << >>
    /\ installed_apps_list' = {}
    /\ upgradable_apps_list' = {}
    /\ probe' = NoProbe
    /\ act' = "none"
    /\ auth_file' = NoFile
    /\ rc' = 0
    /\ pending' = "none"
    /\ result' = NoResult
    /\ trace' = << >>
    /\ cmds' = << >>
    /\ UNCHANGED << host, params, tmpfiles, prev_obs, host0 >>

\* The module invoked once more on the host as it was, with the same tool
\* behaviour possible, the parameters differing in auth_password alone
RerunWithOtherPassword ==
    /\ pc = "done"
    /\ run = 1
    /\ run' = 2
    /\ host' = host0
    /\ \E p \in OtherPasswords : params' = [ params EXCEPT !.auth_password = p ]
    /\ prev_result' = result
    /\ prev_info' = [ taken |-> probe.json = "json",
                      installed |-> installed_apps_list,
                      upgradable |-> upgradable_apps_list ]
    /\ prev_obs' = [ probe |-> probe, cmds |-> cmds, trace |-> trace ]
    /\ pc' = "check_ucs"
    /\ available_apps_list' = << >>
    /\ installed_apps_list' = {}
    /\ upgradable_apps_list' = {}
    /\ probe' = NoProbe
    /\ act' = "none"
    /\ auth_file' = NoFile
    /\ rc' = 0
    /\ pending' = "none"
    /\ result' = NoResult
    /\ trace' = << >>
    /\ cmds' = << >>
    /\ UNCHANGED << tmpfiles, host0 >>

Next ==
    \/ PlatformGuard
    \/ get_app_list
    \/ get_app_info
    \/ LogicChecks
    \/ UpgradeTest
    \/ Dispatch
    \/ ActionCall
    \/ Report
    \/ Finally
    \/ NextRun

Spec == Init /\ [][Next]_vars

\* in the second run of a pair each call of the tool ends as in the first
SameToolBehaviour ==
    run = 2 => \A call \in DOMAIN probe :
                  probe[call] \in { "none", prev_obs.probe[call] }

NextPair ==
    \/ PlatformGuard /\ SameToolBehaviour'
    \/ get_app_list /\ SameToolBehaviour'
    \/ get_app_info /\ SameToolBehaviour'
    \/ LogicChecks /\ SameToolBehaviour'
    \/ UpgradeTest /\ SameToolBehaviour'
    \/ Dispatch /\ SameToolBehaviour'
    \/ ActionCall /\ SameToolBehaviour'
    \/ Report /\ SameToolBehaviour'
    \/ Finally /\ SameToolBehaviour'
    \/ RerunWithOtherPassword

\* two runs that differ only in auth_password
SpecPair == Init /\ [][NextPair]_vars

-----------------------------------------------------------------------------
(* Vocabulary of the properties *)

Corrective == { "install", "remove", "upgrade" }

Done == pc = "done"

\* how often an event occurred in the current run
Count(ev) == Cardinality({ i \in DOMAIN trace : trace[i] = ev })

NumActions == Cardinality({ i \in DOMAIN trace : trace[i] \in Corrective })

\* this run obtained a snapshot: both probe calls returned and the JSON parsed
SnapshotTaken == probe.json = "json"

\* exact membership of the requested name in the three sets of the snapshot
NameAvailable == params.name \in host.available

NameInstalled == params.name \in installed_apps_list

NameUpgradable == params.name \in upgradable_apps_list

\* both probe calls exited 0 and the info output parsed
ProbesOk == probe.list = "ok" /\ probe.info = "ok" /\ SnapshotTaken

\* installed and upgradable apps are in the catalog, upgradable ones installed
ConsistentSnapshot ==
    /\ installed_apps_list \subseteq host.available
    /\ upgradable_apps_list \subseteq installed_apps_list

\* the preceding run succeeded on a consistent snapshot, and if it reported
\* a change, the sets the tool reports did change
PrecedingRunSucceeded ==
    /\ run >= 2
    /\ prev_result.kind = "exit"
    /\ prev_info.taken
    /\ prev_info.installed \subseteq host.available
    /\ prev_info.upgradable \subseteq prev_info.installed
    /\ prev_result.changed =>
          << prev_info.installed, prev_info.upgradable >>
              # << installed_apps_list, upgradable_apps_list >>

\* the host is not of the supported OS family
UnsupportedHost == Lower(host.dist) # "univention"

-----------------------------------------------------------------------------
(* Properties *)

\* C1: in every terminal state of a run (success result, failure result, or
\* a fault raised during the action call) no staged credential file exists.
C1_NoCredentialAtEnd == Done => tmpfiles = {}

\* C1 witness: a run staged a credential, the action call raised, run ended
C1_Witness ==
    Done /\ Count("create") = 1 /\ result.kind = "crash" /\ NumActions = 1

\* C2: a run executes at most one corrective action, at most three subprocess
\* calls (list, info, one action), at most one credential creation/removal
\* pair, and never an Upgrade followed by an Install or Remove.
C2_AtMostOneAction ==
    /\ NumActions <= 1
    /\ Len(cmds) <= 3
    /\ Count("list") <= 1 /\ Count("info") <= 1
    /\ Count("create") <= 1 /\ Count("os_remove") <= Count("create")
    /\ \A i, j \in DOMAIN trace :
          (i < j /\ trace[i] = "upgrade") => trace[j] \notin { "install", "remove" }

\* C2 witness: a finished run with three subprocess calls, the third an upgrade
C2_Witness ==
    Done /\ Len(cmds) = 3 /\ Count("upgrade") = 1 /\ Count("os_remove") = 1

\* C3: for a name in installed, upgradable and available, a run with
\* state=present and upgrade=true executes exactly one Upgrade and no Install
\* or Remove (the upgrade test precedes the 'already installed' no-op).
C3_UpgradeTakesPrecedence ==
    ( Done /\ SnapshotTaken /\ NameAvailable /\ NameInstalled /\ NameUpgradable
      /\ params.state = "present" /\ params.upgrade )
    => ( Count("upgrade") = 1 /\ Count("install") = 0 /\ Count("remove") = 0 )

\* C3 witness: such a run ended having upgraded the app
C3_Witness ==
    /\ Done /\ SnapshotTaken /\ NameAvailable /\ NameInstalled /\ NameUpgradable
    /\ params.state = "present" /\ params.upgrade
    /\ result = exit_json(TRUE, "upgraded")

\* C4 (as claimed, on consistent snapshots): for an available name that is not
\* in installed, a run with state=present executes exactly one Install and no
\* Upgrade or Remove.
C4_InstallWhenAbsent ==
    ( Done /\ ProbesOk /\ ConsistentSnapshot /\ NameAvailable
      /\ ~ NameInstalled /\ params.state = "present" )
    => ( Count("install") = 1 /\ Count("upgrade") = 0 /\ Count("remove") = 0 )

\* C5: for a name in installed and available, a run with state=absent
\* executes exactly one Remove, whatever upgradable and the upgrade flag are,
\* and no Upgrade.
C5_RemoveWhenInstalled ==
    ( Done /\ SnapshotTaken /\ NameAvailable /\ NameInstalled
      /\ params.state = "absent" )
    => ( Count("remove") = 1 /\ Count("upgrade") = 0 /\ Count("install") = 0 )

\* C5 witness: an installed, upgradable app removed with upgrade=true
C5_Witness ==
    /\ Done /\ SnapshotTaken /\ NameAvailable /\ NameInstalled /\ NameUpgradable
    /\ params.state = "absent" /\ params.upgrade
    /\ result = exit_json(TRUE, "removed")

\* C6 (as claimed, on consistent snapshots): for a name in installed but not
\* in upgradable, a run with state=present ends with changed=false, makes
\* only the two probe calls and stages no credential.
C6_NoOpWhenCurrent ==
    ( Done /\ ProbesOk /\ ConsistentSnapshot /\ NameInstalled
      /\ ~ NameUpgradable /\ params.state = "present" )
    => ( /\ result.kind = "exit" /\ ~ result.changed
         /\ Len(cmds) = 2 /\ NumActions = 0 /\ Count("create") = 0 )

\* C7 (as claimed): for a name that is not in the available catalog the run
\* fails with 'does not exist', executes no corrective action and stages no
\* credential, also when an available identifier contains the name.
C7_UnknownApp ==
    ( Done /\ ProbesOk /\ ConsistentSnapshot /\ ~ NameAvailable )
    => ( /\ result = fail_json("not_exist")
         /\ NumActions = 0 /\ Count("create") = 0 )

\* C8 (as claimed): of two consecutive runs with the same parameters and no
\* external change, the second, when the first succeeded and its own probes
\* worked, reports success with changed=false.
C8_Idempotent ==
    ( Done /\ PrecedingRunSucceeded /\ ProbesOk /\ ConsistentSnapshot
      /\ NameAvailable )
    => ( result.kind = "exit" /\ ~ result.changed )

\* C9: on a host that is not of the supported OS family the run ends at once
\* with success changed=false, makes no subprocess call and creates no
\* credential file.
C9_UnsupportedHostNoOp ==
    UnsupportedHost
    => ( /\ pc \in { "check_ucs", "done" }
         /\ cmds = << >> /\ tmpfiles = {} /\ Count("create") = 0
         /\ (Done => result = exit_json(FALSE, "non_ucs")) )

\* C9 witness: a finished run on an unsupported host
C9_Witness == UnsupportedHost /\ Done /\ result.kind = "exit"

\* C10 (as claimed): when a probe call cannot be invoked or exits with
\* failure, or the info output is not a structure with both fields, the run
\* ends with a structured probe failure, no corrective action, no credential.
C10_ProbeError ==
    ( Done /\ ( \/ probe.list \in { "rcfail", "noinvoke" }
                \/ probe.info \in { "rcfail", "noinvoke" }
                \/ probe.json \in { "malformed", "nofields" } ) )
    => ( /\ result.kind = "fail"
         /\ result.msg \in { "run_command", "parse_json" }
         /\ NumActions = 0 /\ Count("create") = 0 )

-----------------------------------------------------------------------------
(* Properties, continued *)

\* the failure message of an action branch
ActionFailure(action) ==
    CASE action = "upgrade" -> fail_json("err_upgrading")
      [] action = "install" -> fail_json("err_installing")
      [] action = "remove" -> fail_json("err_uninstalling")

\* the run is one that ends without an action: a no-op or a failure before it
EndsBeforeAction ==
    \/ result.kind = "exit" /\ ~ result.changed
    \/ result \in { fail_json("not_exist"), fail_json("status_error"),
                    fail_json("parse_json"), Crash("KeyError") }
    \/ probe.list = "noinvoke"
    \/ probe.info = "noinvoke"

\* the four classifications of the specification
classify(name, available, installed, upgradable) ==
    IF name \notin available THEN "NotFound"
    ELSE IF name \in installed /\ name \in upgradable THEN "PresentUpgradable"
    ELSE IF name \in installed THEN "PresentCurrent"
    ELSE "Absent"

\* the classification that main() acts on, from its three flags (lines 174-176)
CodeStatus(name) ==
    IF ~ check_app_present(name) /\ ~ check_app_absent(name) THEN "NotFound"
    ELSE IF check_app_present(name) /\ check_app_absent(name) THEN "Inconsistent"
    ELSE IF check_app_present(name) /\ check_app_upgradeable(name)
         THEN "PresentUpgradable"
    ELSE IF check_app_present(name) THEN "PresentCurrent"
    ELSE "Absent"

\* C11 (as claimed): a name that is in installed but not in available makes
\* the run fail with the consistency error, which is not the 'does not
\* exist' failure, before any action or credential staging.
C11_ConsistencyError ==
    ( Done /\ ProbesOk /\ NameInstalled /\ ~ NameAvailable )
    => ( /\ result = fail_json("status_error")
         /\ NumActions = 0 /\ Count("create") = 0 )

\* C12 (as claimed): every corrective action is invoked with the requested
\* app name, the path of the credential file staged in this run and the
\* auth_username of this run as --username.
C12_ActionArguments ==
    \A i \in DOMAIN cmds :
        ( ProbesOk /\ ConsistentSnapshot /\ cmds[i].action \in Corrective )
        => ( /\ cmds[i].appname = params.name
             /\ cmds[i].pwdfile = auth_file
             /\ cmds[i].username = params.auth_username )

\* C14 (as claimed, on consistent snapshots): for an available name that is
\* not in installed, a run with state=absent ends with success changed=false
\* 'not installed', executes no corrective action and stages no credential.
C14_NoOpWhenAbsent ==
    ( Done /\ ProbesOk /\ ConsistentSnapshot /\ NameAvailable
      /\ ~ NameInstalled /\ params.state = "absent" )
    => ( /\ result = exit_json(FALSE, "not_installed")
         /\ NumActions = 0 /\ Count("create") = 0 )

\* C15: a run reports changed=true iff it executed exactly one corrective
\* action and that action exited 0; when the executed action exits non-zero
\* the run ends in the failure naming the action, never in a success and
\* never in another branch of the decision table.
C15_ChangedIffActionSucceeded ==
    Done =>
      /\ (result.kind = "exit" /\ result.changed)
            <=> (NumActions = 1 /\ probe.action = "zero")
      /\ probe.action = "nonzero"
            => ( /\ result = ActionFailure(act)
                 /\ NumActions = 1
                 /\ trace[Len(trace) - 1] = "fail_json"
                 /\ trace[Len(trace) - 2] = act )

\* C15 witness: an install that exited non-zero and was reported as a failure
C15_Witness ==
    Done /\ probe.action = "nonzero" /\ act = "install" /\ result.kind = "fail"

\* C16 (as claimed): in a run that executes a corrective action the removal
\* of the credential file precedes the emission of the result by exit_json
\* or fail_json.
C16_RemovalBeforeResult ==
    \A i \in DOMAIN trace :
        ( /\ NumActions >= 1 /\ probe.action \in { "zero", "nonzero" }
          /\ ProbesOk /\ ConsistentSnapshot
          /\ trace[i] \in { "exit_json", "fail_json" } )
        => \E j \in 1 .. (i - 1) : trace[j] = "os_remove"

\* C16 (amended): in a run that executes a corrective action the credential
\* file is removed once, after the tool call has returned and after
\* exit_json / fail_json emitted the result, as the last event of the run.
C16_RemovalBeforeTermination ==
    ( Done /\ NumActions >= 1 )
    => ( /\ Count("os_remove") = 1
         /\ trace[Len(trace)] = "os_remove"
         /\ \A i \in DOMAIN trace :
               trace[i] \in Corrective \cup { "exit_json", "fail_json" }
               => i < Len(trace)
         /\ tmpfiles = {} )

\* C16 witness: a finished run whose result was emitted, then the file removed
C16_Witness ==
    /\ Done /\ NumActions = 1 /\ result.kind = "exit" /\ result.changed
    /\ trace[Len(trace) - 1] = "exit_json" /\ trace[Len(trace)] = "os_remove"

\* C17: a credential file is created only after list, then info, have
\* completed and an action was selected, and its creation is immediately
\* followed by exactly one corrective action; runs that end in a no-op or in
\* a failure before the action never create one.
C17_StagingOrder ==
    /\ \A i \in DOMAIN trace :
          trace[i] = "create"
          => ( /\ i = 3 /\ trace[1] = "list" /\ trace[2] = "info"
               /\ SnapshotTaken
               /\ pc \notin { "get_app_list", "get_app_info", "classify" }
               /\ (pc # "try") => ( /\ Len(trace) > i
                                    /\ trace[i + 1] \in Corrective
                                    /\ NumActions = 1 ) )
    /\ (Done /\ EndsBeforeAction) => Count("create") = 0

\* C17 witness: a finished run that staged a credential and removed an app
C17_Witness ==
    /\ Done /\ Len(trace) >= 4 /\ trace[3] = "create" /\ trace[4] = "remove"
    /\ Count("create") = 1

\* C18 (as claimed, on consistent snapshots): the status the three checks
\* derive equals classify(name, snapshot) with exact membership.
C18_ClassifierRefinement ==
    ( ProbesOk /\ ConsistentSnapshot )
    => CodeStatus(params.name)
         = classify(params.name, host.available, installed_apps_list,
                    upgradable_apps_list)

\* C19: no run ends in the defensive final branch ('an unknown error
\* occured'), for every snapshot, consistent or not.
C19_DefensiveBranchUnreachable == result # fail_json("unknown_error")

\* C19 witness: a run on an inconsistent snapshot that went through the chain
C19_Witness ==
    /\ Done /\ SnapshotTaken /\ ~ ConsistentSnapshot
    /\ params.state = "absent"
    /\ result = exit_json(FALSE, "not_installed")

\* the strings a command line or a result shows, besides the app name
Shown ==
    { cmds[i].action : i \in DOMAIN cmds }
        \cup { cmds[i].username : i \in DOMAIN cmds }
        \cup { cmds[i].pwdfile : i \in DOMAIN cmds }
        \cup { result.msg }

\* C13: two runs that differ only in auth_password, on the same host with
\* the same tool behaviour, issue the same command lines and return the same
\* result and message; the password occurs in no command line or message.
C13_PasswordOnlyInFile ==
    /\ params.auth_password \notin Shown
    /\ ( run = 2 /\ Done )
       => ( /\ probe = prev_obs.probe
            /\ cmds = prev_obs.cmds
            /\ trace = prev_obs.trace
            /\ result = prev_result )

\* C13 witness: both runs executed an action, each with its own password
C13_Witness ==
    /\ run = 2 /\ Done /\ probe = prev_obs.probe
    /\ params.auth_password \in OtherPasswords
    /\ NumActions = 1 /\ result.kind = "exit" /\ result.changed

====
